---- MODULE Spec2Model ----
(***************************************************************************)
(* Model of klipper_config/teste/git_backup.py: the GitBackup Moonraker    *)
(* component.  Strings are sequences of one-token strings, a git command   *)
(* is the command line the code builds, and the git repository under the   *)
(* configuration directory is a record the commands read and change.       *)
(***************************************************************************)
EXTENDS Integers, Sequences, FiniteSets, TLC

\* ------------------------------------------------------------------ bounds
\* longest local history explored
MaxCommits == 2
\* number of file writes by the host or the user explored
MaxWrites == 1
\* number of save events delivered and not yet handled explored
MaxTasks == 2

\* ------------------------------------------------------------- text helpers
Cat(a, b) == a \o b

RECURSIVE IndexOfFrom(_, _, _)
\* str.find(c) from position i; 0 when absent
IndexOfFrom(s, c, i) ==
  IF i > Len(s) THEN 0
  ELSE IF s[i] = c THEN i ELSE IndexOfFrom(s, c, i + 1)

RECURSIVE LastIndexOfFrom(_, _, _)
\* str.rfind(c) scanning down from position i; 0 when absent
LastIndexOfFrom(s, c, i) ==
  IF i < 1 THEN 0
  ELSE IF s[i] = c THEN i ELSE LastIndexOfFrom(s, c, i - 1)

RECURSIVE Split(_, _)
\* str.split(sep): always at least one piece, empty pieces are kept
Split(s, sep) ==
  LET i == IndexOfFrom(s, sep, 1)
  IN  IF i = 0 THEN <<s>>
      ELSE <<SubSeq(s, 1, i - 1)>> \o Split(SubSeq(s, i + 1, Len(s)), sep)

RECURSIVE LStrip(_)
LStrip(s) == IF s # <<>> /\ Head(s) = " " THEN LStrip(Tail(s)) ELSE s

RECURSIVE RStrip(_)
RStrip(s) ==
  IF s # <<>> /\ s[Len(s)] = " " THEN RStrip(SubSeq(s, 1, Len(s) - 1)) ELSE s

\* str.strip()
Strip(s) == RStrip(LStrip(s))

\* [f.strip() for f in raw.split(',')]
WatchedFromRaw(raw) ==
  LET parts == Split(raw, ",")
  IN  [i \in 1..Len(parts) |-> Strip(parts[i])]

\* x in list
InList(x, l) == \E i \in 1..Len(l) : l[i] = x

\* os.path.basename: what follows the last "/"
Basename(p) == SubSeq(p, LastIndexOfFrom(p, "/", Len(p)) + 1, Len(p))

\* the template used as it is, the call of format forgotten
FormatRaw(t, fn) == t

RECURSIVE Format(_, _)
\* template.format(filename=fn): the replacement field is one token
Format(t, fn) ==
  IF t = <<>> THEN <<>>
  ELSE (IF Head(t) = "{filename}" THEN fn ELSE <<Head(t)>>) \o Format(Tail(t), fn)

\* characters shlex.quote leaves unquoted are all but these
UnsafeChars == {" ", "'", "\"", "{", "}"}

\* shlex.quote (no token of the model is a single quote, so no escaping)
ShlexQuote(s) ==
  IF s = <<>> THEN <<"'", "'">>
  ELSE IF \A i \in 1..Len(s) : s[i] \notin UnsafeChars THEN s
  ELSE <<"'">> \o s \o <<"'">>

RECURSIVE ShlexScan(_, _, _, _)
\* shlex.split: s the rest of the line, cur the word being read, has whether
\* a word is being read, q the open quote ("" when none)
ShlexScan(s, cur, has, q) ==
  IF s = <<>> THEN (IF has THEN <<cur>> ELSE <<>>)
  ELSE LET c == Head(s)
           t == Tail(s)
       IN  IF q # "" THEN
             IF c = q THEN ShlexScan(t, cur, TRUE, "")
             ELSE ShlexScan(t, Append(cur, c), TRUE, q)
           ELSE IF c \in {"'", "\""} THEN ShlexScan(t, cur, TRUE, c)
           ELSE IF c = " " THEN
             (IF has THEN <<cur>> ELSE <<>>) \o ShlexScan(t, <<>>, FALSE, "")
           ELSE ShlexScan(t, Append(cur, c), TRUE, "")

ShlexSplit(line) == ShlexScan(line, <<>>, FALSE, "")

\* ------------------------------------------------------------- URL helpers
\* urlparse, for URLs without params, query or fragment
UrlParse(u) ==
  LET i      == IndexOfFrom(u, ":", 1)
      okSch  == i > 1 /\ \A k \in 1..(i - 1) : u[k] \notin {"/", "@", " ", ":"}
      scheme == IF okSch THEN SubSeq(u, 1, i - 1) ELSE <<>>
      rest   == IF okSch THEN SubSeq(u, i + 1, Len(u)) ELSE u
      hasNet == Len(rest) >= 2 /\ rest[1] = "/" /\ rest[2] = "/"
      after  == IF hasNet THEN SubSeq(rest, 3, Len(rest)) ELSE rest
      j      == IndexOfFrom(after, "/", 1)
      netloc == IF ~hasNet THEN <<>>
                ELSE IF j = 0 THEN after ELSE SubSeq(after, 1, j - 1)
      path   == IF ~hasNet THEN rest
                ELSE IF j = 0 THEN <<>> ELSE SubSeq(after, j, Len(after))
  IN  [scheme |-> scheme, netloc |-> netloc, path |-> path]

\* urlunparse((scheme, netloc, path, '', '', '')) with a non-empty netloc
UrlUnparse(scheme, netloc, path) ==
  LET p == IF path # <<>> /\ Head(path) # "/" THEN <<"/">> \o path ELSE path
      u == <<"/", "/">> \o netloc \o p
  IN  IF scheme # <<>> THEN scheme \o <<":">> \o u ELSE u

\* the configured URL handed on as it is, the token left out
UrlNoToken(remote_url, token) == remote_url

\* the URL _setup_remote hands to 'git remote add origin'
UrlWithToken(remote_url, token) ==
  LET parsed == UrlParse(remote_url)
  IN  UrlUnparse(parsed.scheme, token \o <<"@">> \o parsed.netloc, parsed.path)

\* ------------------------------------------------------------ the universe
\* files under the configuration directory, as paths relative to it
Paths == {<<"a">>, <<"d", "/", "b">>}
\* file contents; 0 stands for "no such file"
Versions == {1, 2}
NoFiles == [p \in Paths |-> 0]

Url1   == <<"https", ":", "/", "/", "host", "/", "repo">>
Token1 == <<"tok">>
Tmpl1  == <<"Auto", " ", "{filename}">>
\* https://github.com/user/repo.git with token abc123, and a URL with no path
UrlGithub   == <<"https", ":", "/", "/", "github.com", "/", "user", "/", "repo.git">>
TokenAbc    == <<"abc123">>
UrlBareHost == <<"http", ":", "/", "/", "host">>

\* what config.get* return (defaults already applied), src lines 20-25;
\* an option is [some |-> FALSE] when the getter returns None
Some(s) == [some |-> TRUE, s |-> s]
None    == [some |-> FALSE, s |-> <<>>]
Cfg(en, url, tok, raw, br) ==
  [enabled |-> en, remote_url |-> url, github_token |-> tok,
   watched_files |-> raw, commit_message |-> Tmpl1, branch |-> br]
Configs ==
  { Cfg(TRUE,  Some(Url1), Some(Token1), <<"a">>, <<"main">>),
    Cfg(TRUE,  Some(Url1), Some(Token1), <<"a", ",", " ", "b">>, <<"main">>),
    Cfg(TRUE,  Some(Url1), Some(Token1), <<>>, <<"main">>),
    Cfg(FALSE, Some(Url1), Some(Token1), <<"a">>, <<"main">>),
    Cfg(TRUE,  None,       Some(Token1), <<"a">>, <<"main">>),
    Cfg(TRUE,  Some(Url1), Some(<<>>),   <<"a">>, <<"main">>),
    Cfg(TRUE,  Some(UrlGithub),   Some(TokenAbc), <<"a">>, <<"main">>),
    Cfg(TRUE,  Some(UrlBareHost), Some(Token1),   <<"a">>, <<"main">>) }

\* 'not x' for an optional string
Falsy(o) == ~o.some \/ o.s = <<>>

\* the repository under config_path; exists = the .git directory is there,
\* branch the branch checked out, commits its history, locals the other
\* local branches, pushed how many of commits the remote has on the branch
\* the component pushes
NoRepo ==
  [exists |-> FALSE, branch |-> <<>>, name |-> FALSE, email |-> FALSE,
   index |-> NoFiles, head |-> NoFiles, commits |-> <<>>, locals |-> {},
   origin |-> <<>>, pushed |-> 0]

VARIABLES
  config,       \* the component's section of moonraker.conf
  gitInstalled, \* whether a git binary is on the PATH
  work,         \* working tree: path -> content (0 = absent)
  repo,         \* the git repository at config_path
  phase,        \* "unloaded" before load_component, "loaded" after
  is_enabled,   \* self.is_enabled
  watched_files,\* self.watched_files
  registered,   \* the save handler is registered with the server
  writes,       \* file writes so far
  call,         \* the last operation: its input, commands, logs, outcome
  tasks         \* coroutines of _on_file_saved the event loop has yet to end

vars == <<config, gitInstalled, work, repo, phase, is_enabled, watched_files,
          registered, writes, call, tasks>>

\* --------------------------------------------------------------- git itself
Word(s) == <<s>>
Line(words) == \* words joined by single blanks
  LET F[i \in 0..Len(words)] ==
        IF i = 0 THEN <<>>
        ELSE IF i = 1 THEN words[1] ELSE F[i - 1] \o <<" ">> \o words[i]
  IN  F[Len(words)]

\* paths with a pending change as 'git status --porcelain' lists them:
\* staged, modified or deleted in the working tree, or untracked
StatusOf(r, w) == {p \in Paths : r.index[p] # r.head[p] \/ w[p] # r.index[p]}

GitOk(r, out)  == [ok |-> TRUE,  r |-> r, out |-> out]
GitFail(r)     == [ok |-> FALSE, r |-> r, out |-> {}]

\* one run of the git binary on argument list args (args[1] = "git") in
\* repository r with working tree w: exit status 0 or not, repository after,
\* paths printed on stdout
Git(args, r, w) ==
  LET sub == IF Len(args) >= 2 THEN args[2] ELSE <<>>
  IN
  IF sub = <<"--version">> THEN GitOk(r, {})
  ELSE IF sub = <<"init">> THEN
    IF r.exists THEN GitOk(r, {})
    ELSE GitOk([NoRepo EXCEPT !.exists = TRUE, !.branch = <<"master">>], {})
  ELSE IF ~r.exists THEN GitFail(r)
  ELSE IF sub = <<"checkout">> THEN
    \* checkout -b <branch>: fails when the branch already has commits
    IF Len(args) # 4 \/ args[3] # <<"-b">> THEN GitFail(r)
    ELSE IF args[4] = r.branch /\ r.commits # <<>> THEN GitFail(r)
    ELSE IF args[4] \in r.locals THEN GitFail(r)
    ELSE GitOk([r EXCEPT !.branch = args[4],
                         !.locals = IF r.commits # <<>> THEN @ \cup {r.branch}
                                    ELSE @], {})
  ELSE IF sub = <<"config">> THEN
    IF Len(args) # 4 THEN GitFail(r)
    ELSE IF args[3] = <<"user.name">> THEN GitOk([r EXCEPT !.name = TRUE], {})
    ELSE IF args[3] = <<"user.email">> THEN GitOk([r EXCEPT !.email = TRUE], {})
    ELSE GitFail(r)
  ELSE IF sub = <<"add">> THEN
    \* empty pathspec, or a pathspec matching no file: fatal
    IF Len(args) # 3 \/ args[3] \notin Paths THEN GitFail(r)
    ELSE IF w[args[3]] = 0 /\ r.index[args[3]] = 0 THEN GitFail(r)
    ELSE GitOk([r EXCEPT !.index[args[3]] = w[args[3]]], {})
  ELSE IF sub = <<"status">> THEN GitOk(r, StatusOf(r, w))
  ELSE IF sub = <<"commit">> THEN
    \* commit -m <msg>: exit 1 when nothing is staged
    IF Len(args) # 4 \/ args[3] # <<"-m">> THEN GitFail(r)
    ELSE IF r.index = r.head THEN GitFail(r)
    ELSE GitOk([r EXCEPT
                  !.commits = Append(@, [msg |-> args[4],
                     files |-> {p \in Paths : r.index[p] # r.head[p]}]),
                  !.head = r.index], {})
  ELSE IF sub = <<"remote">> THEN
    IF Len(args) = 4 /\ args[3] = <<"remove">> /\ args[4] = <<"origin">> THEN
      IF r.origin = <<>> THEN GitFail(r) ELSE GitOk([r EXCEPT !.origin = <<>>], {})
    ELSE IF Len(args) = 5 /\ args[3] = <<"add">> /\ args[4] = <<"origin">> THEN
      IF r.origin # <<>> THEN GitFail(r) ELSE GitOk([r EXCEPT !.origin = args[5]], {})
    ELSE GitFail(r)
  ELSE IF sub = <<"push">> THEN
    \* push origin <branch>: the branch must exist locally (have a commit);
    \* it is sent whether or not it is the one checked out
    IF Len(args) # 4 \/ args[3] # <<"origin">> \/ r.origin = <<>> THEN GitFail(r)
    ELSE IF args[4] = r.branch /\ r.commits # <<>>
         THEN GitOk([r EXCEPT !.pushed = Len(r.commits)], {})
    ELSE IF args[4] \in r.locals THEN GitOk(r, {})
    ELSE GitFail(r)
  ELSE GitFail(r)

\* ------------------------------------------------- exceptions and the log
\* the value of e given a name: F(x) with x the value of e
Bind(e, F(_)) == CHOOSE y \in {F(x) : x \in {e}} : TRUE

NoExc == [kind |-> "none", text |-> <<>>]
Exc(kind, text) == [kind |-> kind, text |-> text]
\* a logging call: level, which statement, the text interpolated into it
LogMsg(level, tag, text) == [level |-> level, tag |-> tag, text |-> text]

\* the running state of one call into the component: repository so far,
\* exception in flight, stdout of the last command, commands run, log
\* output, and which command (by position) the environment makes fail
Start(r, fault) ==
  [r |-> r, exc |-> NoExc, out |-> {}, cmds |-> <<>>, logs |-> <<>>,
   n |-> 0, fault |-> fault]
Raised(acc) == acc.exc.kind # "none"
\* a logging statement, reached only when no exception is in flight
Log(acc, level, tag, text) ==
  Bind(acc, LAMBDA a :
    IF Raised(a) THEN a
    ELSE [a EXCEPT !.logs = Append(@, LogMsg(level, tag, text))])

\* subprocess.run(args, cwd=config_path, check=not suppress) and what
\* _run_git_command does with its outcome
RunArgs(a, command, args, suppress) ==
  Bind(IF a.fault = a.n + 1 THEN GitFail(a.r) ELSE Git(args, a.r, work),
       LAMBDA g :
    IF ~gitInstalled THEN
      \* FileNotFoundError, which _run_git_command does not catch
      [a EXCEPT !.exc = Exc("FileNotFoundError", <<"git">>),
                !.cmds = Append(@, [line |-> command, ok |-> FALSE]),
                !.n = @ + 1]
    ELSE IF g.ok \/ suppress THEN
      [a EXCEPT !.r = g.r, !.out = g.out,
                !.cmds = Append(@, [line |-> command, ok |-> g.ok]),
                !.n = @ + 1]
    ELSE
      \* check=True: CalledProcessError, logged with the command, re-raised
      [a EXCEPT !.exc = Exc("CalledProcessError", command),
                !.logs = Append(@, LogMsg("error", "run_git", command)),
                !.cmds = Append(@, [line |-> command, ok |-> FALSE]),
                !.n = @ + 1])

\* _run_git_command(command, suppress_errors), a statement like any other:
\* skipped when an exception is in flight
RunGit(acc, command, suppress) ==
  Bind(acc, LAMBDA a :
    IF Raised(a) THEN a
    ELSE Bind(command, LAMBDA c :
           Bind(ShlexSplit(c), LAMBDA args : RunArgs(a, c, args, suppress))))

\* no except clause: the exception goes on to the caller
CatchNothing(acc, tag, text) == acc

\* except Exception as e: every exception of the model is an Exception
CatchException(acc, tag, text) ==
  Bind(acc, LAMBDA a :
    IF Raised(a)
    THEN [a EXCEPT !.exc = NoExc,
                   !.logs = Append(@, LogMsg("error", tag, text \o a.exc.text))]
    ELSE a)

\* ------------------------------------------------------------ construction
\* _validate_config testing remote_url alone
ValidateUrlOnly(acc) ==
  Bind(acc, LAMBDA a :
    IF Raised(a) THEN a
    ELSE IF Falsy(config.remote_url)
         THEN [a EXCEPT !.exc = Exc("Exception", <<"remote_url", "github_token">>)]
         ELSE a)

\* _validate_config
ValidateConfig(acc) ==
  Bind(acc, LAMBDA a :
    IF Raised(a) THEN a
    ELSE IF Falsy(config.remote_url) \/ Falsy(config.github_token)
         THEN [a EXCEPT !.exc = Exc("Exception", <<"remote_url", "github_token">>)]
         ELSE a)

\* _check_git_installed swallowing the failure of 'git --version'
CheckGitIgnored(acc) ==
  Bind(RunGit(acc, Line(<<Word("git"), Word("--version")>>), FALSE), LAMBDA a :
    IF Raised(a) THEN [a EXCEPT !.exc = NoExc] ELSE a)

\* _check_git_installed
CheckGitInstalled(acc) ==
  Bind(RunGit(acc, Line(<<Word("git"), Word("--version")>>), FALSE), LAMBDA a :
    IF Raised(a)
    THEN [a EXCEPT !.exc = Exc("Exception", <<"git", "not", "found">>)]
    ELSE a)

\* os.path.exists(os.path.join(config_path, filename)); joining the empty
\* name gives the directory itself
ExistsOnDisk(filename) ==
  filename = <<>> \/ (filename \in Paths /\ work[filename] # 0)

\* the loop of _initialize_repo over self.watched_files
AddWatched(acc, wf) ==
  LET F[i \in 0..Len(wf)] ==
        IF i = 0 THEN acc
        ELSE IF ExistsOnDisk(wf[i])
             THEN RunGit(F[i - 1],
                         Line(<<Word("git"), Word("add"), ShlexQuote(wf[i])>>),
                         FALSE)
             ELSE F[i - 1]
  IN  F[Len(wf)]

\* the command line of source line 86 (its accents left out)
InitialCommitLine ==
  Line(<<Word("git"), Word("commit"), Word("-m"),
         <<"\"", "Commit", " ", "inicial:", " ", "Arquivos", " ", "de", " ",
           "configuracao", " ", "monitorados", "\"">> >>)

\* _initialize_repo past its early return: the repository is created
CreateRepo(acc, wf) ==
  Bind(Log(acc, "info", "repo_init", <<>>), LAMBDA a1 :
  Bind(RunGit(a1, Line(<<Word("git"), Word("init")>>), FALSE), LAMBDA a2 :
  Bind(RunGit(a2, Line(<<Word("git"), Word("checkout"), Word("-b"),
                         config.branch>>), FALSE), LAMBDA a3 :
  Bind(RunGit(a3, Line(<<Word("git"), Word("config"), Word("user.name"),
                         <<"\"", "Klipper", " ", "Backup", " ", "Plugin", "\"">> >>),
              FALSE),
       LAMBDA a4 :
  Bind(RunGit(a4, Line(<<Word("git"), Word("config"), Word("user.email"),
                         <<"\"", "backup@klipper.local", "\"">> >>), FALSE),
       LAMBDA a5 :
  Bind(AddWatched(a5, wf), LAMBDA a6 :
  Bind(RunGit(a6, InitialCommitLine, FALSE), LAMBDA a7 :
    Log(a7, "info", "repo_done", <<>>))))))))

\* _initialize_repo without the test for an existing .git directory
InitializeRepoAlways(acc, wf) ==
  Bind(acc, LAMBDA a : IF Raised(a) THEN a ELSE CreateRepo(a, wf))

\* _initialize_repo
InitializeRepo(acc, wf) ==
  Bind(acc, LAMBDA a :
    IF Raised(a) THEN a
    ELSE IF a.r.exists THEN Log(a, "info", "repo_exists", <<>>)
    ELSE CreateRepo(a, wf))

\* _setup_remote removing origin without suppress_errors
SetupRemoteStrict(acc) ==
  Bind(acc, LAMBDA a :
    IF Raised(a) THEN a
    ELSE
      Bind(UrlWithToken(config.remote_url.s, config.github_token.s), LAMBDA url :
      Bind(Log(a, "info", "remote_setup", <<>>), LAMBDA a1 :
      Bind(RunGit(a1, Line(<<Word("git"), Word("remote"), Word("remove"),
                             Word("origin")>>), FALSE), LAMBDA a2 :
      Bind(RunGit(a2, Line(<<Word("git"), Word("remote"), Word("add"),
                             Word("origin"), ShlexQuote(url)>>), FALSE),
           LAMBDA a3 :
        Log(a3, "info", "remote_done", <<>>))))))

\* _setup_remote
SetupRemote(acc) ==
  Bind(acc, LAMBDA a :
    IF Raised(a) THEN a
    ELSE
      Bind(UrlWithToken(config.remote_url.s, config.github_token.s), LAMBDA url :
      Bind(Log(a, "info", "remote_setup", <<>>), LAMBDA a1 :
      Bind(RunGit(a1, Line(<<Word("git"), Word("remote"), Word("remove"),
                             Word("origin")>>), TRUE), LAMBDA a2 :
      Bind(RunGit(a2, Line(<<Word("git"), Word("remote"), Word("add"),
                             Word("origin"), ShlexQuote(url)>>), FALSE),
           LAMBDA a3 :
        Log(a3, "info", "remote_done", <<>>))))))

\* the try block of __init__, up to the handler's registration
InitSteps(acc, wf) ==
  Bind(ValidateConfig(acc), LAMBDA a1 :
  Bind(CheckGitInstalled(a1), LAMBDA a2 :
  Bind(InitializeRepo(a2, wf), LAMBDA a3 :
    SetupRemote(a3))))

\* __init__ whose except clause forgets self.is_enabled = False
ConstructStaysEnabled(r, fault) ==
  Bind(WatchedFromRaw(config.watched_files), LAMBDA wf :
    IF ~config.enabled
    THEN [acc |-> Log(Start(r, fault), "info", "disabled", <<>>),
          watched_files |-> wf, is_enabled |-> FALSE, registered |-> FALSE]
    ELSE
      Bind(InitSteps(Log(Start(r, fault), "info", "monitoring", <<>>), wf),
           LAMBDA a :
        [acc |-> CatchException(a, "init_failed", <<>>), watched_files |-> wf,
         is_enabled |-> TRUE, registered |-> ~Raised(a)]))

\* __init__ without the early return of a disabled component
ConstructNoReturn(r, fault) ==
  Bind(WatchedFromRaw(config.watched_files), LAMBDA wf :
    Bind(InitSteps(Log(Start(r, fault), "info", "monitoring", <<>>), wf),
         LAMBDA a :
      [acc |-> CatchException(a, "init_failed", <<>>), watched_files |-> wf,
       is_enabled |-> config.enabled /\ ~Raised(a), registered |-> ~Raised(a)]))

\* GitBackup.__init__ run against repository r: the fields it leaves and the
\* running state at its end
ConstructOn(r, fault) ==
  Bind(WatchedFromRaw(config.watched_files), LAMBDA wf :
    IF ~config.enabled
    THEN [acc |-> Log(Start(r, fault), "info", "disabled", <<>>),
          watched_files |-> wf, is_enabled |-> FALSE, registered |-> FALSE]
    ELSE
      Bind(InitSteps(Log(Start(r, fault), "info", "monitoring", <<>>), wf),
           LAMBDA a :
        IF Raised(a)
        THEN [acc |-> CatchException(a, "init_failed", <<>>),
              watched_files |-> wf, is_enabled |-> FALSE, registered |-> FALSE]
        ELSE [acc |-> a, watched_files |-> wf,
              is_enabled |-> TRUE, registered |-> TRUE]))

\* GitBackup.__init__ on the repository as it is on disk
Construct(fault) == ConstructOn(repo, fault)

\* ------------------------------------------------------------ save handler
\* the try block of _on_file_saved with its except clause
Backup(acc, filepath, filename) ==
  Bind(Log(acc, "info", "saved", filename), LAMBDA a1 :
  Bind(RunGit(a1, Line(<<Word("git"), Word("add"), ShlexQuote(filepath)>>),
              FALSE), LAMBDA a2 :
  Bind(RunGit(a2, Line(<<Word("git"), Word("status"), Word("--porcelain")>>),
              FALSE), LAMBDA a3 :
    IF ~Raised(a3) /\ a3.out = {}
    THEN Log(a3, "info", "no_change", <<>>)
    ELSE
      Bind(Format(config.commit_message, filename), LAMBDA msg :
      Bind(RunGit(a3, Line(<<Word("git"), Word("commit"), Word("-m"),
                             ShlexQuote(msg)>>), FALSE), LAMBDA a4 :
      Bind(RunGit(a4, Line(<<Word("git"), Word("push"), Word("origin"),
                             config.branch>>), FALSE), LAMBDA a5 :
        CatchException(Log(a5, "info", "backup_done", filename),
                       "backup_failed", filename)))))))

\* _on_file_saved without the test 'filename in self.watched_files'
FileSavedAnyFile(filepath, fault) ==
  Bind(Basename(filepath), LAMBDA filename :
    IF ~is_enabled THEN Start(repo, fault)
    ELSE Backup(Start(repo, fault), filepath, filename))

\* GitBackup._on_file_saved(filepath): the running state at its end
FileSaved(filepath, fault) ==
  Bind(Basename(filepath), LAMBDA filename :
    IF ~is_enabled THEN Start(repo, fault)
    ELSE IF ~InList(filename, watched_files) THEN Start(repo, fault)
    ELSE Backup(Start(repo, fault), filepath, filename))

\* --------------------------------------------------------------- event loop
\* a handler that awaits after each of its first three commands
AwaitAfterEachCommand == {1, 2, 3}

\* where _on_file_saved awaits, as the number of commands run before the
\* await: the body of the coroutine holds no await expression
AwaitPoints == {}

\* the coroutine the host gets from _on_file_saved(filepath): pc counts the
\* commands it has run, acc is its running state
NewTask(filepath) ==
  [path |-> filepath, pc |-> 0, done |-> FALSE, acc |-> Start(NoRepo, 0)]

\* the coroutine returns
Returned(t, acc) == [t EXCEPT !.done = TRUE, !.acc = acc]

\* after a command: on to the next statement, or into the except clause
After(t, acc) ==
  Bind(acc, LAMBDA a :
    IF Raised(a)
    THEN Returned(t, CatchException(a, "backup_failed", Basename(t.path)))
    ELSE [t EXCEPT !.pc = @ + 1, !.acc = a])

\* _on_file_saved from its statement pc up to and including its next command
HandlerStep(t) ==
  Bind(Basename(t.path), LAMBDA filename :
    IF t.pc = 0 THEN
      IF ~is_enabled THEN Returned(t, t.acc)
      ELSE IF ~InList(filename, watched_files) THEN Returned(t, t.acc)
      ELSE After(t, RunGit(Log(t.acc, "info", "saved", filename),
                           Line(<<Word("git"), Word("add"), ShlexQuote(t.path)>>),
                           FALSE))
    ELSE IF t.pc = 1 THEN
      Bind(RunGit(t.acc, Line(<<Word("git"), Word("status"),
                                Word("--porcelain")>>), FALSE), LAMBDA a3 :
        IF ~Raised(a3) /\ a3.out = {}
        THEN Returned(t, Log(a3, "info", "no_change", <<>>))
        ELSE After(t, a3))
    ELSE IF t.pc = 2 THEN
      Bind(Format(config.commit_message, filename), LAMBDA msg :
        After(t, RunGit(t.acc, Line(<<Word("git"), Word("commit"), Word("-m"),
                                      ShlexQuote(msg)>>), FALSE)))
    ELSE
      Bind(RunGit(t.acc, Line(<<Word("git"), Word("push"), Word("origin"),
                                config.branch>>), FALSE), LAMBDA a5 :
        Returned(t, CatchException(Log(a5, "info", "backup_done", filename),
                                   "backup_failed", filename))))

RECURSIVE RunToAwait(_)
\* the event loop runs a coroutine until it awaits or returns
RunToAwait(t) ==
  Bind(HandlerStep(t), LAMBDA u :
    IF u.done \/ u.pc \in AwaitPoints THEN u ELSE RunToAwait(u))

\* a coroutine is resumed on the repository as it is on disk by then
Resume(t) == RunToAwait([t EXCEPT !.acc.r = repo])

\* ------------------------------------------------------------------ actions
\* what an operation leaves in call: escaped is the exception that reaches
\* the host ("none" when the operation returns normally)
Called(op, path, acc) ==
  [op |-> op, path |-> path, cmds |-> acc.cmds, logs |-> acc.logs,
   escaped |-> acc.exc.kind]
Idle(op, path) ==
  [op |-> op, path |-> path, cmds |-> <<>>, logs |-> <<>>, escaped |-> "none"]

InitWorks == [Paths -> {0, 1}]
\* a repository the user made by hand ('git init'), and one an earlier run
\* of the component left behind when its initial commit failed
UserRepo ==
  [NoRepo EXCEPT !.exists = TRUE, !.branch = <<"master">>]
EarlierRepo ==
  [NoRepo EXCEPT !.exists = TRUE, !.branch = <<"main">>,
                 !.name = TRUE, !.email = TRUE]
\* a repository of the user with a branch main that has commits and the
\* branch master, still without its own commits, checked out
SideRepo ==
  [NoRepo EXCEPT !.exists = TRUE, !.branch = <<"master">>,
                 !.locals = {<<"main">>}]
InitRepos == {NoRepo, UserRepo, EarlierRepo, SideRepo}

Init ==
  /\ config \in Configs
  /\ gitInstalled \in BOOLEAN
  /\ work \in InitWorks
  /\ repo \in InitRepos
  /\ phase = "unloaded"
  /\ is_enabled = FALSE
  /\ watched_files = <<>>
  /\ registered = FALSE
  /\ writes = 0
  /\ call = Idle("none", <<>>)
  /\ tasks = <<>>

\* load_component(config): the host constructs the component
Load(fault) ==
  /\ phase = "unloaded"
  /\ \E res \in {Construct(fault)} :
         /\ repo' = res.acc.r
         /\ is_enabled' = res.is_enabled
         /\ watched_files' = res.watched_files
         /\ registered' = res.registered
         /\ call' = Called("load", <<>>, res.acc)
  /\ phase' = "loaded"
  /\ UNCHANGED <<config, gitInstalled, work, writes, tasks>>

\* the handler is called for a file that was saved at filepath
OnFileSaved(filepath, fault) ==
  /\ phase = "loaded"
  /\ work[filepath] # 0
  /\ Len(repo.commits) < MaxCommits
  /\ \E acc \in {FileSaved(filepath, fault)} :
         /\ repo' = acc.r
         /\ call' = Called("save", filepath, acc)
  /\ UNCHANGED <<config, gitInstalled, work, phase, is_enabled, watched_files,
                 registered, writes, tasks>>

\* the host or the user writes a file under the configuration directory
\* (explored while the component is loaded and enabled)
WriteFile(path, v) ==
  /\ writes < MaxWrites
  /\ phase = "loaded"
  /\ is_enabled
  /\ work' = [work EXCEPT ![path] = v]
  /\ writes' = writes + 1
  /\ call' = Idle("write", <<>>)
  /\ UNCHANGED <<config, gitInstalled, repo, phase, is_enabled, watched_files,
                 registered, tasks>>

\* the host process ends and starts again: the component's fields are gone,
\* the disk is kept (explored until the first file write)
Restart ==
  /\ phase = "loaded"
  /\ writes = 0
  /\ phase' = "unloaded"
  /\ is_enabled' = FALSE
  /\ watched_files' = <<>>
  /\ registered' = FALSE
  /\ call' = Idle("restart", <<>>)
  /\ UNCHANGED <<config, gitInstalled, work, repo, writes, tasks>>

Next ==
  \/ \E fault \in 0..9 : Load(fault)
  \/ \E filepath \in Paths, fault \in 0..4 : OnFileSaved(filepath, fault)
  \/ \E path \in Paths, v \in Versions : WriteFile(path, v)
  \/ Restart

Spec == Init /\ [][Next]_vars

\* the host delivers a save event while earlier ones may still wait: the
\* registered handler is called and its coroutine handed to the event loop
Deliver(filepath) ==
  /\ phase = "loaded"
  /\ registered
  /\ work[filepath] # 0
  /\ Len(tasks) < MaxTasks
  /\ tasks' = Append(tasks, NewTask(filepath))
  /\ call' = Idle("deliver", filepath)
  /\ UNCHANGED <<config, gitInstalled, work, repo, phase, is_enabled,
                 watched_files, registered, writes>>

\* the event loop runs the i-th coroutine until it awaits or returns
RunTask(i) ==
  /\ i \in DOMAIN tasks
  /\ Len(repo.commits) < MaxCommits
  /\ \E t \in {Resume(tasks[i])} :
         /\ repo' = t.acc.r
         /\ tasks' = IF t.done
                     THEN SubSeq(tasks, 1, i - 1) \o SubSeq(tasks, i + 1, Len(tasks))
                     ELSE [tasks EXCEPT ![i] = t]
         /\ call' = Called(IF t.done THEN "save" ELSE "await", t.path, t.acc)
  /\ UNCHANGED <<config, gitInstalled, work, phase, is_enabled, watched_files,
                 registered, writes>>

NextLoop ==
  \/ Load(0)
  \/ \E filepath \in Paths : Deliver(filepath)
  \/ \E i \in 1..MaxTasks : RunTask(i)

\* the component under an event loop that is handed several save events
SpecLoop == Init /\ [][NextLoop]_vars

\* ------------------------------------------------------------- agent state
Ready      == phase = "loaded" /\ is_enabled /\ registered
FailedInit == phase = "loaded" /\ config.enabled /\ ~is_enabled
Disabled   == phase = "loaded" /\ ~config.enabled

\* -------------------------------------------------- vocabulary of the claims
\* the argument list a recorded command was run with
Argv(c) == ShlexSplit(c.line)
\* the git subcommand of a recorded command
Sub(c)  == Argv(c)[2]
G(words) == <<Word("git")>> \o words
\* what follows the last "/" of p
BaseOf(p) ==
  LET i == CHOOSE i \in 0..Len(p) :
             /\ i = 0 \/ p[i] = "/"
             /\ \A j \in (i + 1)..Len(p) : p[j] # "/"
  IN  SubSeq(p, i + 1, Len(p))
\* template t with every {filename} replaced by fn
Substituted(t, fn) ==
  LET F[i \in 0..Len(t)] ==
        IF i = 0 THEN <<>>
        ELSE F[i - 1] \o (IF t[i] = "{filename}" THEN fn ELSE <<t[i]>>)
  IN  F[Len(t)]
WatchedPath(p) == \E i \in DOMAIN watched_files : watched_files[i] = BaseOf(p)
Pushes(c)  == {i \in DOMAIN c : Sub(c[i]) = <<"push">>}
Commits(c) == {i \in DOMAIN c : Sub(c[i]) = <<"commit">>}
\* commands that change the repository
Mutating == {<<"init">>, <<"checkout">>, <<"config">>, <<"add">>,
             <<"commit">>, <<"remote">>}

\* C1: in the Ready state a save event for a watched file whose content
\* differs from the last commit runs add, status, commit, push in this order;
\* when none of add, status, commit fails it makes exactly one new commit,
\* whose message is the template with {filename} replaced by the base name,
\* and then exactly one push of the configured branch to origin; in every
\* save event a push comes only right after a commit that succeeded.
C1_ChangedFileCommittedThenPushed ==
  [][ (call'.op = "save" /\ Ready /\ WatchedPath(call'.path)
         /\ work[call'.path] # repo.head[call'.path])
      => LET c   == call'.cmds
             p   == call'.path
             msg == Substituted(config.commit_message, BaseOf(p))
         IN  /\ Cardinality(Pushes(c)) <= 1
             /\ Cardinality(Commits(c)) <= 1
             /\ \A i \in Pushes(c) : i > 1 /\ Sub(c[i - 1]) = <<"commit">> /\ c[i - 1].ok
             /\ (\A i \in DOMAIN c : c[i].ok \/ Sub(c[i]) = <<"push">>)
                  => /\ Len(c) = 4
                     /\ Argv(c[1]) = G(<<Word("add"), p>>)
                     /\ Argv(c[2]) = G(<<Word("status"), Word("--porcelain")>>)
                     /\ Argv(c[3]) = G(<<Word("commit"), Word("-m"), msg>>)
                     /\ Argv(c[4]) = G(<<Word("push"), Word("origin"), config.branch>>)
                     /\ Len(repo'.commits) = Len(repo.commits) + 1
                     /\ SubSeq(repo'.commits, 1, Len(repo.commits)) = repo.commits
                     /\ repo'.commits[Len(repo'.commits)].msg = msg
                     /\ p \in repo'.commits[Len(repo'.commits)].files
    ]_vars

\* a save event that committed the saved file and pushed it
C1_Witness ==
  /\ call.op = "save" /\ Ready
  /\ Len(call.cmds) = 4 /\ \A i \in DOMAIN call.cmds : call.cmds[i].ok
  /\ repo.commits # <<>>
  /\ repo.commits[Len(repo.commits)].msg
       = Substituted(config.commit_message, BaseOf(call.path))
  /\ call.path \in repo.commits[Len(repo.commits)].files
  /\ repo.pushed = Len(repo.commits)

\* C2: in the Ready state a save event for a watched file whose content is
\* that of the last commit makes no new commit and no push, whatever else
\* is untracked, modified or staged in the repository.
C2_UnchangedFileNoCommitNoPush ==
  [][ (call'.op = "save" /\ Ready /\ WatchedPath(call'.path)
         /\ work[call'.path] = repo.head[call'.path])
      => /\ repo'.commits = repo.commits
         /\ Pushes(call'.cmds) = {}
    ]_vars

\* C3: a save event whose base filename is not in watched_files runs no
\* command and leaves the repository and the agent as they were.
C3_UnwatchedFileIgnored ==
  [][ (call'.op = "save" /\ ~WatchedPath(call'.path))
      => /\ call'.cmds = <<>>
         /\ call'.escaped = "none"
         /\ UNCHANGED <<repo, work, phase, is_enabled, watched_files, registered>>
    ]_vars

\* a save event of an unwatched file reached a Ready agent
C3_Witness ==
  /\ call.op = "save" /\ Ready
  /\ ~WatchedPath(call.path)
  /\ call.cmds = <<>>

\* C4: when the push of a save event fails, nothing is raised to the host,
\* the failure is logged, the commit of the same event is kept and the
\* agent stays Ready.
C4_PushFailureKeepsCommit ==
  [][ (call'.op = "save"
         /\ \E i \in Pushes(call'.cmds) : ~call'.cmds[i].ok)
      => /\ call'.escaped = "none"
         /\ \E k \in DOMAIN call'.logs :
              call'.logs[k].level = "error" /\ call'.logs[k].tag = "backup_failed"
         /\ Len(repo'.commits) = Len(repo.commits) + 1
         /\ SubSeq(repo'.commits, 1, Len(repo.commits)) = repo.commits
         /\ repo'.head = repo'.index
         /\ Ready /\ Ready'
    ]_vars

\* a save event whose push failed: its commit is there and not on the remote
C4_Witness ==
  /\ call.op = "save" /\ Ready
  /\ Len(call.cmds) = 4 /\ ~call.cmds[4].ok /\ call.cmds[3].ok
  /\ repo.pushed < Len(repo.commits)

\* an initialization step that failed: the configuration is incomplete, or a
\* command other than 'remote remove' did not succeed
InitFailed(c) ==
  \/ Falsy(config.remote_url) \/ Falsy(config.github_token)
  \/ \E i \in DOMAIN c :
       ~c[i].ok /\ Argv(c[i]) # G(<<Word("remote"), Word("remove"), Word("origin")>>)

\* C5: a failure during initialization with enabled=true is caught at
\* construction and leaves the agent in FailedInit with no handler
\* registered; every later save event runs no git command; the agent is not
\* Ready again until the process restarts.
C5_FailedInitIsPermanent ==
  [][ /\ (call'.op = "load" /\ config.enabled /\ InitFailed(call'.cmds))
         => (call'.escaped = "none" /\ FailedInit' /\ ~registered')
      /\ (call'.op = "save" /\ FailedInit)
         => (call'.cmds = <<>> /\ call'.escaped = "none" /\ repo' = repo)
      /\ (FailedInit /\ phase' = "loaded") => FailedInit'
    ]_vars

\* a save event delivered after a failed initialization
C5_Witness ==
  /\ call.op = "save" /\ FailedInit /\ ~registered
  /\ call.cmds = <<>>

\* C6: with enabled=false no subprocess is run at construction or in any
\* save event, and the handler is never registered.
C6_DisabledRunsNothing ==
  [][ ~config.enabled
      => /\ call'.cmds = <<>>
         /\ call'.escaped = "none"
         /\ ~registered' /\ ~is_enabled'
         /\ repo' = repo
    ]_vars

\* a save event delivered to a disabled component
C6_Witness ==
  /\ call.op = "save" /\ Disabled
  /\ call.cmds = <<>> /\ ~registered

\* C7: with enabled=true and remote_url or the token empty or missing,
\* initialization ends disabled and runs no repository-mutating command.
C7_IncompleteConfigNoMutation ==
  [][ (call'.op = "load" /\ config.enabled
         /\ (Falsy(config.remote_url) \/ Falsy(config.github_token)))
      => /\ FailedInit' /\ ~registered'
         /\ \A i \in DOMAIN call'.cmds : Sub(call'.cmds[i]) \notin Mutating
         /\ repo' = repo
    ]_vars

\* a component constructed with an empty token
C7_Witness ==
  /\ call.op = "load" /\ FailedInit
  /\ config.github_token.some /\ config.github_token.s = <<>>
  /\ ~repo.exists

C9_BootstrapWithoutFilesSucceeds ==
  (/\ phase = "unloaded" /\ ~repo.exists /\ gitInstalled /\ config.enabled
   /\ ~Falsy(config.remote_url) /\ ~Falsy(config.github_token)
   /\ \A f \in Paths :
        (\E i \in DOMAIN WatchedFromRaw(config.watched_files) :
           WatchedFromRaw(config.watched_files)[i] = f) => work[f] = 0)
  => \A res \in {ConstructOn(repo, 0)} : res.is_enabled /\ res.registered

\* C10: whenever the agent is Ready the repository is on the configured
\* branch.
C10_ReadyOnConfiguredBranch ==
  Ready => repo.branch = config.branch

\* remote_url with tok@ put right after the "//" that ends the scheme
TokenInserted(u, tok) ==
  LET i == CHOOSE i \in 1..Len(u) :
             /\ i + 2 <= Len(u)
             /\ u[i] = ":" /\ u[i + 1] = "/" /\ u[i + 2] = "/"
             /\ \A j \in 1..(i - 1) : u[j] # ":"
  IN  SubSeq(u, 1, i + 2) \o tok \o <<"@">> \o SubSeq(u, i + 3, Len(u))
RemoteAdds(c) ==
  {i \in DOMAIN c : /\ Len(Argv(c[i])) = 5
                    /\ SubSeq(Argv(c[i]), 1, 4)
                         = G(<<Word("remote"), Word("add"), Word("origin")>>)}

\* C11: the URL handed to 'remote add origin' is remote_url with the token
\* inserted as user-info (scheme://TOKEN@host/path), scheme, host and path
\* kept; for https://github.com/user/repo.git and abc123 it is exactly
\* https://abc123@github.com/user/repo.git; a successful add leaves it as
\* the URL of origin.
C11_TokenInsertedAsUserInfo ==
  [][ call'.op = "load"
      => \A i \in RemoteAdds(call'.cmds) :
           LET url == Argv(call'.cmds[i])[5]
           IN  /\ url = TokenInserted(config.remote_url.s, config.github_token.s)
               /\ (config.remote_url.s = UrlGithub /\ config.github_token.s = TokenAbc)
                    => url = <<"https", ":", "/", "/", "abc123", "@", "github.com",
                               "/", "user", "/", "repo.git">>
               /\ call'.cmds[i].ok => repo'.origin = url
    ]_vars

\* the origin of the example: https://abc123@github.com/user/repo.git
C11_Witness ==
  /\ call.op = "load" /\ Ready
  /\ config.remote_url.s = UrlGithub /\ config.github_token.s = TokenAbc
  /\ RemoteAdds(call.cmds) # {}
  /\ repo.origin = <<"https", ":", "/", "/", "abc123", "@", "github.com",
                     "/", "user", "/", "repo.git">>

\* text holds the word w
Mentions(text, w) ==
  /\ w # <<>>
  /\ \E i \in 1..(Len(text) - Len(w) + 1) : SubSeq(text, i, i + Len(w) - 1) = w

\* C12: no message sent to the logging sink holds the access token (alone or
\* within the token-bearing URL), whatever command failed.
C12_TokenNeverLogged ==
  config.github_token.some
    => \A k \in DOMAIN call.logs :
         ~Mentions(call.logs[k].text, config.github_token.s)

\* C13: every entry of the watch set built at construction is trimmed of
\* surrounding blanks and none is empty.
C13_WatchSetTrimmedNoEmpty ==
  phase = "loaded"
    => \A i \in DOMAIN watched_files :
         /\ watched_files[i] # <<>>
         /\ Head(watched_files[i]) # " "
         /\ watched_files[i][Len(watched_files[i])] # " "

\* the initialization step a recorded command belongs to: 1 tool check,
\* 2 repository init, 3 remote setup
StepOf(c) ==
  IF Sub(c) = <<"--version">> THEN 1
  ELSE IF Sub(c) = <<"remote">> THEN 3 ELSE 2
\* a command whose failure raises: any but 'remote remove origin'
Checked(c) == Argv(c) # G(<<Word("remote"), Word("remove"), Word("origin")>>)

\* C14: construction validates the configuration before any command, then
\* runs the tool check, the repository init and the remote setup in this
\* order; a command that fails is the last one run (without git no
\* repository-changing command runs); the handler is registered only when
\* every step succeeded, ending with 'remote add'; and a save event runs
\* commands only with the handler registered.
C14_InitStepsInOrder ==
  [][ /\ call'.op = "load"
         => LET c == call'.cmds
            IN  /\ (Falsy(config.remote_url) \/ Falsy(config.github_token))
                     => c = <<>>
                /\ c # <<>> => Argv(c[1]) = G(<<Word("--version")>>)
                /\ \A i, j \in DOMAIN c : i < j => StepOf(c[i]) <= StepOf(c[j])
                /\ \A i \in DOMAIN c : (~c[i].ok /\ Checked(c[i])) => i = Len(c)
                /\ ~gitInstalled => \A i \in DOMAIN c : Sub(c[i]) \notin Mutating
                /\ registered'
                     => /\ config.enabled
                        /\ ~Falsy(config.remote_url) /\ ~Falsy(config.github_token)
                        /\ c # <<>> /\ Len(c) \in RemoteAdds(c)
                        /\ \A i \in DOMAIN c : c[i].ok \/ ~Checked(c[i])
                        /\ repo'.exists /\ repo'.origin # <<>>
      /\ (call'.op = "save" /\ call'.cmds # <<>>) => registered
    ]_vars

\* a construction stopped by the tool check: git is missing, the one
\* command run is 'git --version'
C14_Witness ==
  /\ call.op = "load" /\ FailedInit /\ ~registered
  /\ ~gitInstalled
  /\ ~Falsy(config.remote_url) /\ ~Falsy(config.github_token)
  /\ Len(call.cmds) = 1 /\ ~call.cmds[1].ok
  /\ ~repo.exists

RemoteRemoves(c) == {i \in DOMAIN c : ~Checked(c[i])}

\* C15: in remote setup 'remote add origin <token URL>' is run right after
\* 'remote remove origin' whether or not the removal succeeded, nothing is
\* raised to the host, and the bootstrap ends Ready exactly when the add
\* succeeds.
C15_RemoveFailureDoesNotAbort ==
  [][ call'.op = "load"
      => \A i \in RemoteRemoves(call'.cmds) :
           /\ i + 1 = Len(call'.cmds)
           /\ i + 1 \in RemoteAdds(call'.cmds)
           /\ Argv(call'.cmds[i + 1])[5]
                = TokenInserted(config.remote_url.s, config.github_token.s)
           /\ call'.escaped = "none"
           /\ Ready' <=> call'.cmds[i + 1].ok
           /\ FailedInit' <=> ~call'.cmds[i + 1].ok
    ]_vars

\* a bootstrap that reached Ready although no origin was there to remove
C15_Witness ==
  /\ call.op = "load" /\ Ready
  /\ \E i \in RemoteRemoves(call.cmds) :
       ~call.cmds[i].ok /\ call.cmds[i + 1].ok
  /\ repo.origin # <<>>

\* once p is staged some tracked file (one in the index or in the last
\* commit) has a change that is staged or waits in the working tree
TrackedPendingAfterAdd(p) ==
  LET idx == [repo.index EXCEPT ![p] = work[p]]
  IN  \E q \in Paths :
        /\ idx[q] # 0 \/ repo.head[q] # 0
        /\ idx[q] # repo.head[q] \/ work[q] # idx[q]

\* C16: in the Ready state, when the saved watched file is staged and no
\* tracked file has a pending change, the handler logs and returns without
\* running commit or push, untracked files in the directory or not.
C16_OnlyTrackedChangesCount ==
  [][ (/\ call'.op = "save" /\ Ready /\ WatchedPath(call'.path)
       /\ Len(call'.cmds) >= 2 /\ call'.cmds[1].ok /\ call'.cmds[2].ok
       /\ ~TrackedPendingAfterAdd(call'.path))
      => /\ Commits(call'.cmds) = {}
         /\ Pushes(call'.cmds) = {}
         /\ \E k \in DOMAIN call'.logs : call'.logs[k].tag = "no_change"
    ]_vars

\* C18: a save event whose push succeeds leaves every local commit on the
\* remote branch, those of earlier events whose push failed included; every
\* commit a save event makes is followed by a push attempt in the same
\* event; no save event removes a commit, locally or from the remote.
C18_NoCommitStranded ==
  [][ call'.op = "save"
      => /\ (\E i \in Pushes(call'.cmds) : call'.cmds[i].ok)
              => repo'.pushed = Len(repo'.commits)
         /\ Len(repo'.commits) > Len(repo.commits) => Pushes(call'.cmds) # {}
         /\ repo'.pushed >= repo.pushed
         /\ Len(repo'.commits) >= Len(repo.commits)
         /\ SubSeq(repo'.commits, 1, Len(repo.commits)) = repo.commits
    ]_vars

\* C19: a commit made by a save event of file F holds changes to F only and
\* carries the message rendered for F.
C19_CommitHoldsSavedFileOnly ==
  [][ (call'.op = "save" /\ Len(repo'.commits) > Len(repo.commits))
      => LET new == repo'.commits[Len(repo'.commits)]
         IN  /\ new.files \subseteq {call'.path}
             /\ new.msg = Substituted(config.commit_message, BaseOf(call'.path))
    ]_vars

\* C17: of the save events handed to the event loop at most one has begun
\* its add/status/commit/push sequence and not ended it; events are handed
\* over only once the bootstrap has ended with the handler registered; and
\* an event that ends has run the whole sequence of the handler, alone, on
\* the repository as it found it.
C17_SequencesNeverInterleave ==
  [][ /\ Cardinality({i \in DOMAIN tasks' : tasks'[i].pc > 0}) <= 1
      /\ tasks' # <<>> => (phase' = "loaded" /\ registered')
      /\ Len(tasks') < Len(tasks)
           => \E i \in DOMAIN tasks :
                \E acc \in {FileSaved(tasks[i].path, 0)} :
                  /\ repo' = acc.r
                  /\ call'.cmds = acc.cmds
                  /\ call'.logs = acc.logs
    ]_vars

\* of two save events delivered together one has committed and pushed while
\* the other has not begun
C17_Witness ==
  /\ call.op = "save" /\ Ready
  /\ Len(call.cmds) = 4 /\ \A k \in DOMAIN call.cmds : call.cmds[k].ok
  /\ tasks # <<>>
  /\ \A i \in DOMAIN tasks : tasks[i].pc = 0

====
